---------------------------- MODULE Spec2Model ----------------------------
(***************************************************************************)
(* Stream verification engine of backend/server.py:                        *)
(*   verify_stream_url     the HEAD -> ranged GET -> plain GET probe        *)
(*   check_station         the per-entry filter and result construction     *)
(*   verify_stations_batch the sub-batch driver (asyncio.gather per slice)  *)
(*   resolve_tunein_stream the playlist resolver of the TuneIn stations     *)
(* One action is one run of a coroutine between two suspension points.     *)
(***************************************************************************)
EXTENDS Integers, Sequences, FiniteSets, TLC

VARIABLES
    request,   \* request.stations: the list of station dicts of the call
    hosts,     \* for each URL, the kind of server answering it
    pc,        \* verify_stations_batch: "loop", "gather" or "done"
    i,         \* the loop variable of `for i in range(0, len(stations), batch_size)`
    tasks,     \* the check_station coroutines of the last asyncio.gather (batch_results)
               \* and any coroutine still running in the event loop
    results,   \* the list `results`
    sent,      \* history: every HTTP request sent, as [pos, url, method, n]
    tunein,    \* one call of resolve_tunein_stream: its arguments and its outcome
    favorites, \* the documents of the collection db.favorites
    handlers,  \* the add_favorite and remove_favorite requests being served
    probe      \* one call of verify_stream_url with the time it has taken

\* The state of one call of verify_stations_batch.
batch_vars == <<request, hosts, pc, i, tasks, results, sent>>

favorite_vars == <<favorites, handlers>>

\* The state of the other operations.
other_vars == <<tunein, favorite_vars, probe>>

vars == <<batch_vars, other_vars>>

\* No call of resolve_tunein_stream.
NoTunein == [pc |-> "idle"]

TuneinIdle == tunein = NoTunein

\* An empty collection and no request for it.
FavoritesIdle == favorites = {} /\ handlers = <<>>

\* No timed call of verify_stream_url.
NoProbe == [st |-> "idle"]

ProbeIdle == probe = NoProbe

OthersIdle == TuneinIdle /\ FavoritesIdle /\ ProbeIdle

----------------------------------------------------------------------------
(* Bounds of the model and constants of the program *)

\* Entries of arbitrary shape in a short request.
MaxFree == 1

\* Entries appended after the run of well-formed entries of a long request.
MaxBack == 2

\* `batch_size = 5`
batch_size == 5

\* `request.stations[:50]`
max_stations == 50

----------------------------------------------------------------------------
(* Python values *)

None == [t |-> "none"]

Str(s) == [t |-> "str", v |-> s]

Num(k) == [t |-> "num", n |-> k]

\* The identifier of the j-th well-formed entry: the string "p<j>".
PadId(j) == [t |-> "str", v |-> "p", n |-> j]

\* bool(x) for the values above
Truthy(x) ==
    CASE x.t = "str" -> x.v # ""
      [] x.t = "num" -> x.n # 0
      [] OTHER -> FALSE

\* d.get(key, default)
DictGet(d, key, default) == IF key \in DOMAIN d THEN d[key] ELSE default

\* a or b
PyOr(a, b) == IF Truthy(a) THEN a ELSE b

\* seq[lo:hi] for 0 <= lo <= hi
Slice(seq, lo, hi) ==
    LET top == IF hi < Len(seq) THEN hi ELSE Len(seq)
    IN  IF lo >= top THEN <<>> ELSE SubSeq(seq, lo + 1, top)

----------------------------------------------------------------------------
(* Strings as character sequences, for `in` and lower() *)

Chars(s) ==
    CASE s = "audio/" -> <<"a", "u", "d", "i", "o", "/">>
      [] s = "application/ogg" -> <<"a", "p", "p", "l", "i", "c", "a", "t", "i", "o", "n", "/", "o", "g", "g">>
      [] s = "application/octet-stream" -> <<"a", "p", "p", "l", "i", "c", "a", "t", "i", "o", "n", "/", "o", "c", "t", "e", "t", "-", "s", "t", "r", "e", "a", "m">>
      [] s = "video/mp4" -> <<"v", "i", "d", "e", "o", "/", "m", "p", "4">>
      [] s = "application/x-mpegurl" -> <<"a", "p", "p", "l", "i", "c", "a", "t", "i", "o", "n", "/", "x", "-", "m", "p", "e", "g", "u", "r", "l">>
      [] s = "application/vnd.apple.mpegurl" -> <<"a", "p", "p", "l", "i", "c", "a", "t", "i", "o", "n", "/", "v", "n", "d", ".", "a", "p", "p", "l", "e", ".", "m", "p", "e", "g", "u", "r", "l">>
      [] s = "audio/x-mpegurl" -> <<"a", "u", "d", "i", "o", "/", "x", "-", "m", "p", "e", "g", "u", "r", "l">>
      [] s = "audio/x-scpls" -> <<"a", "u", "d", "i", "o", "/", "x", "-", "s", "c", "p", "l", "s">>
      [] s = "audio/mpegurl" -> <<"a", "u", "d", "i", "o", "/", "m", "p", "e", "g", "u", "r", "l">>
      [] s = "audio/mpeg" -> <<"a", "u", "d", "i", "o", "/", "m", "p", "e", "g">>
      [] s = "AUDIO/AACP" -> <<"A", "U", "D", "I", "O", "/", "A", "A", "C", "P">>
      [] s = "text/html; charset=utf-8" -> <<"t", "e", "x", "t", "/", "h", "t", "m", "l", ";", " ", "c", "h", "a", "r", "s", "e", "t", "=", "u", "t", "f", "-", "8">>
      [] s = "text/plain" -> <<"t", "e", "x", "t", "/", "p", "l", "a", "i", "n">>
      [] s = "application/json" -> <<"a", "p", "p", "l", "i", "c", "a", "t", "i", "o", "n", "/", "j", "s", "o", "n">>
      [] s = "[playlist]" -> <<"[", "p", "l", "a", "y", "l", "i", "s", "t", "]">>
      [] s = "[Playlist]" -> <<"[", "P", "l", "a", "y", "l", "i", "s", "t", "]">>
      [] s = "File1=http://s/a" -> <<"F", "i", "l", "e", "1", "=", "h", "t", "t", "p", ":", "/", "/", "s", "/", "a">>
      [] s = "file1= http://s/a \r" -> <<"f", "i", "l", "e", "1", "=", " ", "h", "t", "t", "p", ":", "/", "/", "s", "/", "a", " ", "\r">>
      [] s = " File1=http://s/a" ->
            <<" ", "F", "i", "l", "e", "1", "=", "h", "t", "t", "p", ":", "/", "/", "s", "/", "a">>
      [] s = "http://s/a" -> <<"h", "t", "t", "p", ":", "/", "/", "s", "/", "a">>
      [] s = "File1=" -> <<"F", "i", "l", "e", "1", "=">>
      [] s = "#EXTM3U" -> <<"#", "E", "X", "T", "M", "3", "U">>
      [] s = "http://s/b" -> <<"h", "t", "t", "p", ":", "/", "/", "s", "/", "b">>
      [] s = " https://s/c\r" -> <<" ", "h", "t", "t", "p", "s", ":", "/", "/", "s", "/", "c", "\r">>
      [] s = "HTTP://s/d" -> <<"H", "T", "T", "P", ":", "/", "/", "s", "/", "d">>
      [] s = "<html>" -> <<"<", "h", "t", "m", "l", ">">>
      [] s = "file1=" -> <<"f", "i", "l", "e", "1", "=">>
      [] s = "http://" -> <<"h", "t", "t", "p", ":", "/", "/">>
      [] s = "https://" -> <<"h", "t", "t", "p", "s", ":", "/", "/">>
      [] s = "#" -> <<"#">>
      [] s = "://" -> <<":", "/", "/">>
      [] s = "/" -> <<"/">>
      [] s = "http://t/Tune.ashx" -> <<"h", "t", "t", "p", ":", "/", "/", "t", "/", "T", "u", "n", "e", ".", "a", "s", "h", "x">>
      [] s = "HTTP://T/Tune.ashx" -> <<"H", "T", "T", "P", ":", "/", "/", "T", "/", "T", "u", "n", "e", ".", "a", "s", "h", "x">>
      [] s = "http://s/r" -> <<"h", "t", "t", "p", ":", "/", "/", "s", "/", "r">>
      [] s = "tune.ashx" -> <<"t", "u", "n", "e", ".", "a", "s", "h", "x">>
      [] s = "" -> <<>>

UpperCase == <<"A", "B", "C", "D", "E", "F", "G", "H", "I", "J", "K", "L", "M",
               "N", "O", "P", "Q", "R", "S", "T", "U", "V", "W", "X", "Y", "Z">>

LowerCase == <<"a", "b", "c", "d", "e", "f", "g", "h", "i", "j", "k", "l", "m",
               "n", "o", "p", "q", "r", "s", "t", "u", "v", "w", "x", "y", "z">>

LowerChar(c) ==
    IF \E k \in 1..Len(UpperCase) : UpperCase[k] = c
    THEN LowerCase[CHOOSE k \in 1..Len(UpperCase) : UpperCase[k] = c]
    ELSE c

\* str.lower()
Lower(cs) == [k \in 1..Len(cs) |-> LowerChar(cs[k])]

\* `p in s` for strings
Contains(s, p) ==
    \E k \in 0..(Len(s) - Len(p)) : SubSeq(s, k + 1, k + Len(p)) = p

----------------------------------------------------------------------------
(* verify_stream_url *)

\* The list without its 'application/x-mpegurl' entry.
audio_types_without_mpegurl ==
    <<"audio/", "application/ogg", "application/octet-stream",
      "video/mp4", "application/vnd.apple.mpegurl",
      "audio/x-mpegurl", "audio/mpegurl">>

audio_types ==
    <<"audio/", "application/ogg", "application/octet-stream",
      "video/mp4", "application/x-mpegurl", "application/vnd.apple.mpegurl",
      "audio/x-mpegurl", "audio/mpegurl">>

\* The Content-Type values the servers of the model send ("": no header).
ContentTypeValues ==
    {"", "audio/mpeg", "AUDIO/AACP", "application/octet-stream",
     "text/html; charset=utf-8", "text/plain", "application/json",
     "application/ogg", "video/mp4", "application/vnd.apple.mpegurl",
     "audio/x-mpegurl", "application/x-mpegurl", "audio/x-scpls"}

\* content_type = response.headers.get('content-type', '').lower()
content_type(r) == DictGet(r.headers, "content-type", "")

\* any(audio_type in content_type for audio_type in audio_types), for each
\* value of the header
MatchesAudioType ==
    [s \in ContentTypeValues |->
        \E k \in 1..Len(audio_types) : Contains(Lower(Chars(s)), Chars(audio_types[k]))]

IsAudioType(r) == MatchesAudioType[content_type(r)]

\* bool(response.headers.get(name))
HeaderTruthy(r, name) == name \in DOMAIN r.headers /\ r.headers[name] # ""

\* response.headers.get('icy-name') or response.headers.get('icy-genre')
HasIcy(r) == HeaderTruthy(r, "icy-name") \/ HeaderTruthy(r, "icy-genre")

\* The exceptions httpx raises in the model; the first two are TimeoutExceptions.
TimeoutExceptions == {"ConnectTimeout", "ReadTimeout"}

Exceptions ==
    TimeoutExceptions
        \cup {"ConnectError", "RemoteProtocolError", "ReadError", "UnsupportedProtocol"}

\* Every clause written as `except httpx.TimeoutException`.
ExceptClauseTimeoutOnly(clause) == TimeoutExceptions

\* What each except clause of verify_stream_url catches.
ExceptClause(clause) ==
    IF clause = "outer_timeout" THEN TimeoutExceptions ELSE Exceptions

Return(b) == [o |-> "return", v |-> b]

\* return b after a body read that gave a chunk of n bytes
ReturnChunk(b, n) == [o |-> "return", v |-> b, chunk |-> n]

\* The bytes of each kind of body that ends.
BodyLength(body) ==
    CASE body = "empty" -> 0
      [] body = "bytes" -> 513
      [] body = "long" -> 1048576
      [] body = "playlist" ->
            Len(Chars("[playlist]")) + 1 + Len(Chars("File1=http://s/a")) + 1

\* The most bytes aiter_bytes(512) yields at once.
aiter_chunk(body) ==
    IF body = "endless" \/ BodyLength(body) > 512 THEN 512 ELSE BodyLength(body)

Pass == [o |-> "next"]

Hang == [o |-> "hang"]

Raise(e) == [o |-> "raise", exc |-> e]

\* try: <stage> except Exception: <handler>
Try(clause, exc, handler) ==
    IF exc \in ExceptClause(clause) THEN handler ELSE Raise(exc)

\* Stage 1 returning False on an error status.
head_stage_rejects_errors(r) ==
    IF r.kind = "exception" THEN Try("head", r.exc, Pass)
    ELSE IF r.status < 400
         THEN IF IsAudioType(r) THEN Return(TRUE)
              ELSE IF HasIcy(r) THEN Return(TRUE)
              ELSE Pass
         ELSE Return(FALSE)

\* Stage 1: HEAD
head_stage(r) ==
    IF r.kind = "exception" THEN Try("head", r.exc, Pass)
    ELSE IF r.status < 400
         THEN IF IsAudioType(r) THEN Return(TRUE)
              ELSE IF HasIcy(r) THEN Return(TRUE)
              ELSE Pass
         ELSE Pass

\* chunk = await response.aread() of the ranged GET
range_read(r) ==
    CASE r.body \in {"bytes", "long", "playlist"} -> ReturnChunk(TRUE, BodyLength(r.body))
      [] r.body = "empty" -> Pass
      [] r.body = "endless" -> Hang
      [] OTHER -> Try("range_read", r.body, Return(TRUE))

\* Stage 2 with `except Exception: return False`.
range_stage_fails_closed(r) ==
    IF r.kind = "exception" THEN Try("range", r.exc, Return(FALSE))
    ELSE IF r.status >= 400 THEN Pass
    ELSE IF IsAudioType(r) THEN Return(TRUE)
    ELSE IF HasIcy(r) THEN Return(TRUE)
    ELSE IF r.status \in {200, 206}
         THEN LET o == range_read(r)
              IN  IF o.o = "raise" THEN Try("range", o.exc, Return(FALSE)) ELSE o
         ELSE Pass

\* Stage 2: GET with Range: bytes=0-512
range_stage(r) ==
    IF r.kind = "exception" THEN Try("range", r.exc, Pass)
    ELSE IF r.status >= 400 THEN Pass
    ELSE IF IsAudioType(r) THEN Return(TRUE)
    ELSE IF HasIcy(r) THEN Return(TRUE)
    ELSE IF r.status \in {200, 206}
         THEN LET o == range_read(r)
              IN  IF o.o = "raise" THEN Try("range", o.exc, Pass) ELSE o
         ELSE Pass

\* The loop of the plain GET with its `break` before the test of the chunk.
get_read_breaks_first(r) ==
    CASE r.body \in {"bytes", "long", "playlist", "endless", "empty"} -> Return(FALSE)
      [] OTHER -> Try("get_read", r.body, Return(TRUE))

\* async for chunk in response.aiter_bytes(512) of the plain GET
get_read(r) ==
    CASE r.body \in {"bytes", "long", "playlist", "endless"} ->
            ReturnChunk(TRUE, aiter_chunk(r.body))
      [] r.body = "empty" -> Return(FALSE)
      [] OTHER -> Try("get_read", r.body, Return(TRUE))

\* Stage 3 without its test of the status code.
get_stage_any_status(r) ==
    IF r.kind = "exception" THEN Try("get", r.exc, Return(FALSE))
    ELSE IF IsAudioType(r) THEN Return(TRUE)
    ELSE LET o == get_read(r)
         IN  IF o.o = "raise" THEN Try("get", o.exc, Return(FALSE)) ELSE o

\* Stage 3: plain GET
get_stage(r) ==
    IF r.kind = "exception" THEN Try("get", r.exc, Return(FALSE))
    ELSE IF r.status < 400
         THEN IF IsAudioType(r) THEN Return(TRUE)
              ELSE LET o == get_read(r)
                   IN  IF o.o = "raise" THEN Try("get", o.exc, Return(FALSE)) ELSE o
         ELSE Return(FALSE)

\* The outer try of verify_stream_url around the three stages.
verify_stream_url(stage, r) ==
    LET o == CASE stage = "head" -> head_stage(r)
               [] stage = "range" -> range_stage(r)
               [] stage = "get" -> get_stage(r)
    IN  IF o.o # "raise" THEN o
        ELSE IF o.exc \in ExceptClause("outer_timeout") THEN Return(FALSE)
        ELSE Try("outer", o.exc, Return(FALSE))

\* The plain GET right after the HEAD.
NextStageSkipsRange(stage) == "get"

NextStage(stage) == IF stage = "head" THEN "range" ELSE "get"

Method(stage) ==
    CASE stage = "head" -> "HEAD"
      [] stage = "range" -> "GET Range"
      [] stage = "get" -> "GET"

----------------------------------------------------------------------------
(* The servers *)

URLs == {"u1", "u2"}

Absent == "<absent>"

\* The headers dict holding the given values, a header left out when Absent.
Headers(ct, name, genre, br) ==
    LET val == [h \in {"content-type", "icy-name", "icy-genre", "icy-br"} |->
                  CASE h = "content-type" -> ct
                    [] h = "icy-name" -> name
                    [] h = "icy-genre" -> genre
                    [] h = "icy-br" -> br]
    IN  [h \in {x \in DOMAIN val : val[x] # Absent} |-> val[h]]

Response(status, headers, body) ==
    [kind |-> "response", status |-> status, headers |-> headers, body |-> body]

Failure(e) == [kind |-> "exception", exc |-> e]

NoResponse == [kind |-> "none"]

Statuses == {200, 204, 206, 404}

Methods == {"HEAD", "GET Range", "GET"}

NonAudioTypes == {"text/html; charset=utf-8", "text/plain", "application/json"}

\* What a body read can meet: no byte, the bytes the Range header asked for
\* then the end, a long body then the end, bytes without end, or an exception.
\* The body of a server of class "playlist" is the text of a playlist,
\* "[playlist]\nFile1=http://s/a\n".
Bodies(method) ==
    IF method = "HEAD" THEN {"empty"}
    ELSE {"empty", "bytes", "long", "endless", "ReadTimeout", "ReadError"}

\* The icy-name, icy-genre and icy-br headers a server of class "any" sends.
IcyHeaders ==
    {<<Absent, Absent, Absent>>, <<"", Absent, Absent>>, <<"SomaFM", Absent, "128">>,
     <<Absent, "Ambient", Absent>>, <<Absent, Absent, "128">>}

\* The Content-Type values sent together with every choice of icy-* headers;
\* the other values are sent without icy-* headers.
VariedContentTypes ==
    {Absent, "audio/mpeg", "AUDIO/AACP", "application/octet-stream",
     "text/html; charset=utf-8", "text/plain", "application/json"}

AnyHeaders ==
    {Headers(ct, icy[1], icy[2], icy[3]) : ct \in VariedContentTypes, icy \in IcyHeaders}
    \cup {Headers(ct, Absent, Absent, Absent) : ct \in ContentTypeValues \ {""}}

\* The headers an error answer of a server of class "error" carries.
ErrorHeaders ==
    {Headers(Absent, Absent, Absent, Absent),
     Headers("text/html; charset=utf-8", Absent, Absent, Absent),
     Headers("audio/mpeg", "SomaFM", "Ambient", "128")}

\* The Content-Type values a server of class "playlist" sends.
PlaylistContentTypes ==
    {Absent, "text/plain", "audio/x-scpls", "audio/x-mpegurl",
     "application/vnd.apple.mpegurl"}

HostClasses == {"any", "icy", "down", "html", "error", "gone", "playlist"}

\* The answers a server of each class can give to a request.
Responses ==
    [class \in HostClasses, method \in Methods |->
        CASE class = "any" ->
                {Response(s, h, b) : s \in Statuses, h \in AnyHeaders, b \in Bodies(method)}
                \cup {Failure(e) : e \in {"ConnectError", "ConnectTimeout",
                                          "ReadTimeout", "RemoteProtocolError"}}
          [] class = "icy" ->
                {Response(200, Headers("audio/mpeg", "SomaFM", Absent, "128"),
                          IF method = "HEAD" THEN "empty" ELSE "endless")}
          [] class = "down" -> {Failure("ConnectError")}
          [] class = "html" ->
                {Response(200, Headers(ct, Absent, Absent, Absent), b) :
                    ct \in NonAudioTypes, b \in Bodies(method) \cap {"empty", "bytes"}}
          [] class = "playlist" ->
                {Response(s, Headers(ct, Absent, Absent, Absent),
                          IF method = "HEAD" THEN "empty" ELSE "playlist") :
                    s \in {200, 404}, ct \in PlaylistContentTypes}
          [] class = "gone" ->
                {Response(404, Headers("text/html; charset=utf-8", Absent, Absent, Absent),
                          "bytes")}
          [] class = "error" ->
                {Response(s, h, b) : s \in {404, 503}, h \in ErrorHeaders, b \in Bodies(method)}]

----------------------------------------------------------------------------
(* check_station *)

\* url = station.get('url') or station.get('url_resolved', '')
EffectiveUrlPreferUrl(station) ==
    PyOr(DictGet(station, "url", None), DictGet(station, "url_resolved", Str("")))

\* url = station.get('url_resolved') or station.get('url', '')
EffectiveUrl(station) ==
    PyOr(DictGet(station, "url_resolved", None), DictGet(station, "url", Str("")))

\* stationuuid = station.get('stationuuid', '')
StationUuid(station) == DictGet(station, "stationuuid", Str(""))

\* The filter without its test of stationuuid.
SurvivesUrlOnly(station) == Truthy(EffectiveUrl(station))

\* not (not url or not stationuuid)
Survives(station) == Truthy(EffectiveUrl(station)) /\ Truthy(StationUuid(station))

\* StationVerifyResult(stationuuid=..., is_live=...): the model validates
\* stationuuid as str and raises ValidationError for any other value.
StationVerifyResult(stationuuid, is_live, pos) ==
    IF stationuuid.t = "str"
    THEN [kind |-> "StationVerifyResult", stationuuid |-> stationuuid,
          is_live |-> is_live, pos |-> pos]
    ELSE [kind |-> "Exception", exc |-> "ValidationError", pos |-> pos]

NoValue == [kind |-> "None"]

\* stations = request.stations
AllStations == request

\* stations = request.stations[:50]
stations == Slice(request, 0, max_stations)

\* batch = stations[max(i - 1, 0):i + batch_size]
BatchPositionsOverlapping(lo) ==
    LET from == IF lo > 0 THEN lo - 1 ELSE 0
        batch == Slice(stations, from, lo + batch_size)
    IN  [k \in 1..Len(batch) |-> from + k]

\* batch = stations[i:i + batch_size + 1]
BatchPositionsWider(lo) ==
    LET batch == Slice(stations, lo, lo + batch_size + 1)
    IN  [k \in 1..Len(batch) |-> lo + k]

\* The sub-batches cut from the entries that pass the filter of check_station.
BatchPositionsOfSurvivors(lo) ==
    LET surv == SelectSeq([p \in 1..Len(stations) |-> p],
                          LAMBDA p : Survives(stations[p]))
    IN  Slice(surv, lo, lo + batch_size)

\* batch = stations[i:i + batch_size], as the input positions of its entries
BatchPositions(lo) ==
    LET batch == Slice(stations, lo, lo + batch_size)
    IN  [k \in 1..Len(batch) |-> lo + k]

\* The coroutine check_station(s) for the entry at input position pos: st is
\* where it stands, resp the last answer it received and at the stage that
\* received it, chunk the length of the last chunk read from a body,
\* is_live what verify_stream_url returned to it ("unset" before),
\* value what it returned or raised.
NewTask(pos) ==
    [pos |-> pos, station |-> request[pos], st |-> "created",
     at |-> "none", resp |-> NoResponse, chunk |-> 0, is_live |-> "unset",
     value |-> NoValue]

Finished(t) == t.st \in {"returned", "raised"}

\* asyncio.wait(..., return_when=FIRST_COMPLETED)
GatherDoneFirst(ts) == \E k \in 1..Len(ts) : Finished(ts[k])

\* await asyncio.gather(*tasks, return_exceptions=True) returns when every
\* coroutine has returned or raised.
GatherDone(ts) == \A k \in 1..Len(ts) : Finished(ts[k])

\* The coroutines still running in the event loop.
Unfinished(ts) == SelectSeq(ts, LAMBDA t : ~Finished(t))

InFlight(t) == t.st \in {"head", "range", "get", "reading"}

----------------------------------------------------------------------------
(* The requests of the model *)

\* Marks a key the dict does not hold.
NoKey == [t |-> "absent"]

Station(uuid, url, resolved) ==
    LET val == [k \in {"stationuuid", "url", "url_resolved"} |->
                  CASE k = "stationuuid" -> uuid
                    [] k = "url" -> url
                    [] k = "url_resolved" -> resolved]
    IN  [k \in {x \in DOMAIN val : val[x] # NoKey} |-> val[k]]

\* Every shape an entry can have: each key absent, empty or set; a
\* stationuuid that is a number.
StationKinds ==
    {Station(uuid, url, resolved) :
        uuid \in {NoKey, Str(""), Str("a"), Num(7)},
        url \in {NoKey, Str(""), Str("u1")},
        resolved \in {NoKey, Str(""), Str("u2")}}

\* A run of n well-formed entries with distinct identifiers.
Pad(n) == [j \in 1..n |-> Station(PadId(j), Str("u1"), Str(""))]

BackKinds ==
    {Station(Str("b"), Str("u2"), NoKey),
     Station(Str(""), Str("u2"), NoKey),
     Station(Num(7), Str("u2"), NoKey)}

SeqsUpTo(S, n) == UNION {[1..m -> S] : m \in 0..n}

PadCounts == {0, batch_size - 1, max_stations - 1, max_stations}

\* One well-formed entry against every class of server.
ProbeInit ==
    /\ request = <<Station(Str("a"), Str("u1"), NoKey)>>
    /\ hosts \in [URLs -> HostClasses]
    /\ hosts["u2"] = "down"

\* Short requests of arbitrary entries.
ShortInit ==
    /\ request \in SeqsUpTo(StationKinds, MaxFree)
    /\ hosts \in [URLs -> {"icy", "down"}]

\* Long requests: a run of well-formed entries, then a few entries.
LongInit ==
    /\ \E n \in PadCounts, back \in SeqsUpTo(BackKinds, MaxBack) :
          request = Pad(n) \o back
    /\ hosts \in [URLs -> {"icy", "down", "gone"}]
    /\ hosts["u1"] = "icy"

Init ==
    /\ ProbeInit \/ ShortInit \/ LongInit
    /\ pc = "loop"
    /\ i = 0
    /\ tasks = <<>>
    /\ results = <<>>
    /\ sent = {}
    /\ OthersIdle

----------------------------------------------------------------------------
(* Actions *)

\* tasks = [check_station(s) for s in batch]; await asyncio.gather(...)
StartSubBatch ==
    /\ pc = "loop"
    /\ i < Len(stations)
    /\ tasks' = Unfinished(tasks)
                    \o [k \in 1..Len(BatchPositions(i)) |-> NewTask(BatchPositions(i)[k])]
    /\ pc' = "gather"
    /\ UNCHANGED <<request, hosts, i, results, sent>>
    /\ UNCHANGED other_vars

\* The plain GET sent to the first entry of the playlist instead.
RequestOfNestedUrl(pos, url, method) ==
    [pos |-> pos, url |-> IF method = "GET" THEN Str("http://s/a") ELSE url,
     method |-> method,
     n |-> Cardinality({s \in sent : s.pos = pos}) + 1]

\* The HTTP request the probe of the entry at pos sends next: n counts the
\* requests of that probe.
Request(pos, url, method) ==
    [pos |-> pos, url |-> url, method |-> method,
     n |-> Cardinality({s \in sent : s.pos = pos}) + 1]

\* The first run of check_station: the filter, then the HEAD request is sent.
\* The event loop starts the coroutines of a gather in list order.
Start(k) ==
    /\ pc = "gather"
    /\ k \in 1..Len(tasks)
    /\ tasks[k].st = "created"
    /\ \A j \in 1..(k - 1) : tasks[j].st # "created"
    /\ LET t == tasks[k]
       IN  IF Survives(t.station)
           THEN /\ tasks' = [tasks EXCEPT ![k].st = "head"]
                /\ sent' = sent \cup {Request(t.pos, EffectiveUrl(t.station), Method("head"))}
           ELSE /\ tasks' = [tasks EXCEPT ![k].st = "returned"]
                /\ sent' = sent
    /\ UNCHANGED <<request, hosts, pc, i, results>>
    /\ UNCHANGED other_vars

\* The answer to the request of `stage` arrives and the probe runs on to its
\* next request or to the end of check_station.
Answer(k, stage) ==
    /\ pc = "gather"
    /\ k \in 1..Len(tasks)
    /\ tasks[k].st = stage
    /\ LET t == tasks[k]
           url == EffectiveUrl(t.station)
       IN  \E r \in Responses[hosts[url.v], Method(stage)] :
             LET o == verify_stream_url(stage, r)
                 value == StationVerifyResult(StationUuid(t.station), o.v, t.pos)
             IN  CASE o.o = "next" ->
                        /\ tasks' = [tasks EXCEPT ![k].st = NextStage(stage),
                                                  ![k].at = stage, ![k].resp = r]
                        /\ sent' = sent \cup {Request(t.pos, url, Method(NextStage(stage)))}
                   [] o.o = "hang" ->
                        /\ tasks' = [tasks EXCEPT ![k].st = "reading",
                                                  ![k].at = stage, ![k].resp = r]
                        /\ sent' = sent
                   [] o.o = "raise" ->
                        /\ tasks' = [tasks EXCEPT ![k].st = "raised",
                                ![k].at = stage, ![k].resp = r,
                                ![k].value = [kind |-> "Exception", exc |-> o.exc, pos |-> t.pos]]
                        /\ sent' = sent
                   [] o.o = "return" ->
                        /\ tasks' = [tasks EXCEPT
                                ![k].st = IF value.kind = "Exception" THEN "raised" ELSE "returned",
                                ![k].at = stage, ![k].resp = r,
                                ![k].chunk = IF "chunk" \in DOMAIN o THEN o.chunk ELSE 0,
                                ![k].is_live = IF o.v THEN "True" ELSE "False",
                                ![k].value = value]
                        /\ sent' = sent
    /\ UNCHANGED <<request, hosts, pc, i, results>>
    /\ UNCHANGED other_vars

HeadAnswer(k) == Answer(k, "head")

RangeAnswer(k) == Answer(k, "range")

GetAnswer(k) == Answer(k, "get")

\* The results built after the gather from one shared is_live, that of the
\* last coroutine of the sub-batch.
CollectedSharedVerdict(ts) ==
    LET keep == {k \in 1..Len(ts) : ts[k].value.kind = "StationVerifyResult"}
        last == CHOOSE k \in keep : \A j \in keep : j <= k
        F[k \in 0..Len(ts)] ==
            IF k = 0 THEN <<>>
            ELSE IF k \in keep
                 THEN Append(F[k - 1],
                             [ts[k].value EXCEPT !.is_live = ts[last].value.is_live])
                 ELSE F[k - 1]
    IN  F[Len(ts)]

\* The values of batch_results that are StationVerifyResult objects, in order.
Collected(ts) ==
    LET keep == {k \in 1..Len(ts) : ts[k].value.kind = "StationVerifyResult"}
        F[k \in 0..Len(ts)] ==
            IF k = 0 THEN <<>>
            ELSE IF k \in keep THEN Append(F[k - 1], ts[k].value) ELSE F[k - 1]
    IN  F[Len(ts)]

\* gather returns; the loop over batch_results appends to results.
Collect ==
    /\ pc = "gather"
    /\ GatherDone(tasks)
    /\ results' = results \o Collected(tasks)
    /\ i' = i + batch_size
    /\ pc' = "loop"
    /\ UNCHANGED <<request, hosts, tasks, sent>>
    /\ UNCHANGED other_vars

\* return results
ReturnResults ==
    /\ pc = "loop"
    /\ i >= Len(stations)
    /\ pc' = "done"
    /\ UNCHANGED <<request, hosts, i, tasks, results, sent>>
    /\ UNCHANGED other_vars

Next ==
    \/ StartSubBatch
    \/ \E k \in DOMAIN tasks : Start(k)
    \/ \E k \in DOMAIN tasks : HeadAnswer(k)
    \/ \E k \in DOMAIN tasks : RangeAnswer(k)
    \/ \E k \in DOMAIN tasks : GetAnswer(k)
    \/ Collect
    \/ ReturnResults

Spec == Init /\ [][Next]_vars

----------------------------------------------------------------------------
(* resolve_tunein_stream *)

\* Lines of a playlist answer.
MaxLines == 3

\* s.startswith(p)
StartsWith(s, p) == Len(s) >= Len(p) /\ SubSeq(s, 1, Len(p)) = p

Whitespace == {" ", "\t", "\r", "\n"}

\* s.strip()
Strip(s) ==
    LET idx == {k \in 1..Len(s) : s[k] \notin Whitespace}
    IN  IF idx = {} THEN <<>>
        ELSE SubSeq(s, CHOOSE k \in idx : \A j \in idx : k <= j,
                       CHOOSE k \in idx : \A j \in idx : j <= k)

\* s.split(c)
Split(s, c) ==
    LET seps == {k \in 1..Len(s) : s[k] = c}
        n == Cardinality(seps)
        \* the position of the j-th separator; 0 and Len(s) + 1 around them
        at == [j \in 0..(n + 1) |->
                 IF j = 0 THEN 0
                 ELSE IF j = n + 1 THEN Len(s) + 1
                 ELSE CHOOSE k \in seps : Cardinality({x \in seps : x < k}) = j - 1]
    IN  [j \in 1..(n + 1) |-> SubSeq(s, at[j - 1] + 1, at[j] - 1)]

\* s.split(c, 1)
SplitOnce(s, c) ==
    LET idx == {k \in 1..Len(s) : s[k] = c}
    IN  IF idx = {} THEN <<s>>
        ELSE LET k == CHOOSE k \in idx : \A j \in idx : k <= j
             IN  <<SubSeq(s, 1, k - 1), SubSeq(s, k + 1, Len(s))>>

\* The text of an answer whose lines are `lines`.
Join(lines, c) ==
    LET F[k \in 0..Len(lines)] ==
            IF k = 0 THEN <<>>
            ELSE IF k = 1 THEN lines[1]
            ELSE F[k - 1] \o <<c>> \o lines[k]
    IN  F[Len(lines)]

\* The index of the last TRUE of a sequence of booleans; 0 when there is none.
LastIndex(hits) ==
    LET idx == {k \in 1..Len(hits) : hits[k]}
    IN  IF idx = {} THEN 0 ELSE CHOOSE k \in idx : \A j \in idx : k >= j

\* The index of the first TRUE of a sequence of booleans, the tests of the
\* lines in order; 0 when there is none.
FirstIndex(hits) ==
    LET idx == {k \in 1..Len(hits) : hits[k]}
    IN  IF idx = {} THEN 0 ELSE CHOOSE k \in idx : \A j \in idx : k <= j

HasScheme(u) == Contains(u, Chars("://"))

\* str(httpx.URL(u)): the scheme and the host are lower-cased.
UrlStr(u) ==
    IF ~HasScheme(u) THEN u
    ELSE LET sep == CHOOSE k \in 1..Len(u) :
                       /\ SubSeq(u, k, k + 2) = Chars("://")
                       /\ \A j \in 1..(k - 1) : SubSeq(u, j, j + 2) # Chars("://")
             slashes == {k \in (sep + 3)..Len(u) : u[k] = "/"}
             end == IF slashes = {} THEN Len(u) + 1
                    ELSE CHOOSE k \in slashes : \A j \in slashes : k <= j
         IN  Lower(SubSeq(u, 1, end - 1)) \o SubSeq(u, end, Len(u))

NoRedirect == <<>>

\* The answer to http_client.get(tune_url, follow_redirects=True): the lines
\* of its text and the URL the redirects ended at (NoRedirect: none followed).
TuneinResponse(lines, redirect) ==
    [kind |-> "response", lines |-> lines, text |-> Join(lines, "\n"),
     redirect |-> redirect]

\* response.url
response_url(tune_url, response) ==
    IF response.redirect = NoRedirect THEN UrlStr(tune_url) ELSE UrlStr(response.redirect)

IsFile1(line) == StartsWith(Lower(line), Chars("file1="))

IsM3uEntry(stripped) ==
    /\ stripped # <<>>
    /\ ~StartsWith(stripped, Chars("#"))
    /\ StartsWith(stripped, Chars("http://")) \/ StartsWith(stripped, Chars("https://"))

\* The body of the try with the M3U loop before the PLS loop.
resolve_body_m3u_first(tune_url, response) ==
    LET content == response.text
        lines == Split(content, "\n")
        file1 == IF Contains(Lower(content), Chars("[playlist]"))
                 THEN FirstIndex([k \in 1..Len(lines) |-> IsFile1(lines[k])]) ELSE 0
        stripped == [k \in 1..Len(lines) |-> Strip(lines[k])]
        entry == FirstIndex([k \in 1..Len(stripped) |-> IsM3uEntry(stripped[k])])
    IN  IF entry # 0 THEN Return(stripped[entry])
        ELSE IF file1 # 0 THEN Return(Strip(SplitOnce(lines[file1], "=")[2]))
        ELSE IF response_url(tune_url, response) # tune_url
             THEN Return(response_url(tune_url, response))
        ELSE Return(tune_url)

\* The body of the try of resolve_tunein_stream.
resolve_body(tune_url, response) ==
    LET content == response.text
        lines == Split(content, "\n")
        file1 == IF Contains(Lower(content), Chars("[playlist]"))
                 THEN FirstIndex([k \in 1..Len(lines) |-> IsFile1(lines[k])]) ELSE 0
        stripped == [k \in 1..Len(lines) |-> Strip(lines[k])]
        entry == FirstIndex([k \in 1..Len(stripped) |-> IsM3uEntry(stripped[k])])
    IN  IF file1 # 0 THEN Return(Strip(SplitOnce(lines[file1], "=")[2]))
        ELSE IF entry # 0 THEN Return(stripped[entry])
        ELSE IF response_url(tune_url, response) # tune_url
             THEN Return(response_url(tune_url, response))
        ELSE Return(tune_url)

\* The exceptions `except Exception` of resolve_tunein_stream catches.
ResolveExcept == Exceptions \cup {"UnsupportedProtocol"}

resolve_tunein_stream(tune_url, answer) ==
    IF answer.kind = "exception"
    THEN IF answer.exc \in ResolveExcept THEN Return(tune_url) ELSE Raise(answer.exc)
    ELSE resolve_body(tune_url, answer)

TuneUrls == {Chars("http://t/Tune.ashx"), Chars("HTTP://T/Tune.ashx"), Chars("")}

TuneinLines ==
    {Chars("[playlist]"), Chars("[Playlist]"), Chars("File1=http://s/a"),
     Chars("file1= http://s/a \r"), Chars(" File1=http://s/a"), Chars("File1="),
     Chars("#EXTM3U"),
     Chars("http://s/b"), Chars(" https://s/c\r"), Chars("HTTP://s/d"), Chars("<html>")}

\* What the server and the network can answer to the GET of tune_url.
TuneinAnswers(tune_url) ==
    IF ~HasScheme(tune_url) THEN {Failure("UnsupportedProtocol")}
    ELSE {TuneinResponse(lines, redirect) :
              lines \in SeqsUpTo(TuneinLines, MaxLines),
              redirect \in {NoRedirect, Chars("http://s/r")}}
         \cup {Failure(e) : e \in {"ConnectError", "ReadTimeout", "RemoteProtocolError"}}

NoOutcome == [o |-> "none"]

\* No call of verify_stations_batch.
BatchIdle ==
    /\ request = <<>>
    /\ hosts = [u \in URLs |-> "down"]
    /\ pc = "done"
    /\ i = 0
    /\ tasks = <<>>
    /\ results = <<>>
    /\ sent = {}

TuneinInit ==
    /\ BatchIdle
    /\ FavoritesIdle
    /\ ProbeIdle
    /\ \E u \in TuneUrls : \E a \in TuneinAnswers(u) :
          tunein = [pc |-> "call", tune_url |-> u, answer |-> a, value |-> NoOutcome]

\* stream_url = await resolve_tunein_stream(data['tune_url'], http_client)
ResolveTuneinStream ==
    /\ tunein.pc = "call"
    /\ LET o == resolve_tunein_stream(tunein.tune_url, tunein.answer)
       IN  tunein' = [tunein EXCEPT !.pc = IF o.o = "return" THEN "returned" ELSE "raised",
                                    !.value = o]
    /\ UNCHANGED <<batch_vars, favorite_vars, probe>>

TuneinNext == ResolveTuneinStream

TuneinSpec == TuneinInit /\ [][TuneinNext]_vars

----------------------------------------------------------------------------
(* add_favorite, remove_favorite *)

\* Requests for the favorites collection served at the same time.
MaxHandlers == 3

StationUuids == {"a", "b"}

\* The request h as it arrives: op is the endpoint, stationuuid its argument,
\* at where its handler stands, status the HTTP status it answered (0: none yet).
NewHandler(op, stationuuid) ==
    [op |-> op, stationuuid |-> stationuuid, at |-> "start", status |-> 0]

\* db.favorites.find_one({"stationuuid": stationuuid})
find_one(stationuuid) == {d \in favorites : d.stationuuid = stationuuid}

\* FavoriteStation(**favorite.model_dump()): id is a fresh uuid4, here the
\* number of the request.
FavoriteStation(h) == [id |-> h, stationuuid |-> handlers[h].stationuuid]

FavoritesInit ==
    /\ BatchIdle
    /\ TuneinIdle
    /\ ProbeIdle
    /\ favorites = {}
    /\ \E n \in 1..MaxHandlers :
          handlers \in [1..n -> {NewHandler(op, s) : op \in {"add", "remove"},
                                                    s \in StationUuids}]

\* add_favorite up to its second await: find_one, then 400 or on to insert_one
AddFindOne(h) ==
    /\ h \in DOMAIN handlers
    /\ handlers[h].op = "add"
    /\ handlers[h].at = "start"
    /\ IF find_one(handlers[h].stationuuid) # {}
       THEN handlers' = [handlers EXCEPT ![h].at = "done", ![h].status = 400]
       ELSE handlers' = [handlers EXCEPT ![h].at = "insert_one"]
    /\ UNCHANGED <<favorites, batch_vars, tunein, probe>>

\* add_favorite from insert_one to its return
AddInsertOne(h) ==
    /\ h \in DOMAIN handlers
    /\ handlers[h].op = "add"
    /\ handlers[h].at = "insert_one"
    /\ favorites' = favorites \cup {FavoriteStation(h)}
    /\ handlers' = [handlers EXCEPT ![h].at = "done", ![h].status = 200]
    /\ UNCHANGED <<batch_vars, tunein, probe>>

\* remove_favorite: delete_one removes one matching document, if any
RemoveFavorite(h) ==
    /\ h \in DOMAIN handlers
    /\ handlers[h].op = "remove"
    /\ handlers[h].at = "start"
    /\ IF find_one(handlers[h].stationuuid) = {}
       THEN /\ favorites' = favorites
            /\ handlers' = [handlers EXCEPT ![h].at = "done", ![h].status = 404]
       ELSE /\ \E d \in find_one(handlers[h].stationuuid) : favorites' = favorites \ {d}
            /\ handlers' = [handlers EXCEPT ![h].at = "done", ![h].status = 200]
    /\ UNCHANGED <<batch_vars, tunein, probe>>

FavoritesNext ==
    \/ \E h \in 1..MaxHandlers : AddFindOne(h)
    \/ \E h \in 1..MaxHandlers : AddInsertOne(h)
    \/ \E h \in 1..MaxHandlers : RemoveFavorite(h)

FavoritesSpec == FavoritesInit /\ [][FavoritesNext]_vars

----------------------------------------------------------------------------
(* verify_stream_url with time: httpx.AsyncClient(timeout=timeout) *)

\* The callers of verify_stream_url.
Callers == {"check_station", "verify_single_station", "verify_station"}

\* timeout of verify_stream_url: the values check_station and
\* verify_single_station pass, and its default, which verify_station takes.
TimeoutOf(caller) ==
    CASE caller = "check_station" -> 12
      [] caller = "verify_single_station" -> 15
      [] caller = "verify_station" -> 8

CallerTimeouts == {TimeoutOf(c) : c \in Callers}

\* The answers of a slow server.
SlowAnswers(method) ==
    {Failure("ConnectTimeout"), Failure("ReadTimeout"), Failure("ConnectError"),
     Response(404, Headers(Absent, Absent, Absent, Absent), "empty"),
     Response(200, Headers("audio/mpeg", Absent, Absent, Absent),
              IF method = "HEAD" THEN "empty" ELSE "endless")}
    \cup {Response(200, Headers("text/html; charset=utf-8", Absent, Absent, Absent), b) :
              b \in Bodies(method)}

\* What a request for url meets: the client refuses a URL without scheme
\* before it sends anything.
AnswersTo(url, method) ==
    IF url = "" THEN {Failure("UnsupportedProtocol")} ELSE SlowAnswers(method)

\* The stage reads the body of the response r.
ReadsBody(stage, r) ==
    /\ r.kind = "response"
    /\ r.status < 400
    /\ ~IsAudioType(r)
    /\ CASE stage = "head" -> FALSE
         [] stage = "range" -> ~HasIcy(r) /\ r.status \in {200, 206}
         [] stage = "get" -> TRUE

\* The time an operation of the client (connect, wait for the response
\* headers, read of a chunk) takes when it ends before the timeout t fires:
\* at once, or just before.
InTime(t) == {0, t - 1}

\* The time a body read takes: a read that times out takes t.
ReadTime(r, t) == IF r.body \in TimeoutExceptions THEN {t} ELSE InTime(t)

\* The time the request of a stage takes until the stage ends, with the
\* timeout t applied by the client to each of its operations.
Durations(stage, r, t) ==
    IF r.kind = "exception"
    THEN CASE r.exc = "ConnectTimeout" -> {t}
           [] r.exc = "ReadTimeout" -> {c + t : c \in InTime(t)}
           [] r.exc = "UnsupportedProtocol" -> {0}
           [] OTHER -> InTime(t)
    ELSE IF ReadsBody(stage, r)
         THEN {c + h + b : c \in InTime(t), h \in InTime(t), b \in ReadTime(r, t)}
         ELSE {c + h : c \in InTime(t), h \in InTime(t)}

\* The checked_at of a call that has built no result.
NoTime == -1

\* The callers that build a StationVerifyResult from the verdict:
\* check_station (timeout=12.0) and verify_single_station (timeout=15.0).
CallersWithResult == {12, 15}

\* checked_at read from the clock before the await of verify_stream_url.
checked_at_before_await(called, returned) == called

\* checked_at=datetime.now(timezone.utc).isoformat(), evaluated in the
\* constructor call that follows `is_live = await verify_stream_url(...)`:
\* `called` and `returned` are the times at which verify_stream_url was
\* called and returned.
checked_at(called, returned) == returned

\* No caller has run yet.
NotCalled ==
    [caller |-> "none", url |-> "", timeout |-> 0, st |-> "idle", elapsed |-> 0,
     is_live |-> "unset", checked_at |-> NoTime]

\* The caller returned without a call of verify_stream_url.
NoCall(caller) == [NotCalled EXCEPT !.caller = caller, !.st = "skipped"]

\* await verify_stream_url(url, timeout): the call starts at time 0, elapsed
\* is the time since.
Call(caller, url) ==
    [caller |-> caller, url |-> url, timeout |-> TimeoutOf(caller), st |-> "head",
     elapsed |-> 0, is_live |-> "unset", checked_at |-> NoTime]

TimedInit ==
    /\ BatchIdle
    /\ TuneinIdle
    /\ FavoritesIdle
    /\ probe = NotCalled

\* check_station(station) up to its call of verify_stream_url
CheckStation ==
    /\ probe.st = "idle"
    /\ \E station \in StationKinds :
          probe' = IF Survives(station)
                   THEN Call("check_station", EffectiveUrl(station).v)
                   ELSE NoCall("check_station")
    /\ UNCHANGED <<batch_vars, tunein, favorite_vars>>

\* The values of the query parameter url: str = Query(...)
QueryUrls == {"", "u1"}

\* verify_single_station(stationuuid, url)
VerifySingleStation ==
    /\ probe.st = "idle"
    /\ \E url \in QueryUrls : probe' = Call("verify_single_station", url)
    /\ UNCHANGED <<batch_vars, tunein, favorite_vars>>

\* What db.favorites.find_one returns to verify_station: None, or a stored
\* FavoriteStation, whose url is any str.
FoundFavorites == {None} \cup {[t |-> "dict", url |-> u] : u \in {"", "u1"}}

\* verify_station(station_id)
VerifyStation ==
    /\ probe.st = "idle"
    /\ \E favorite \in FoundFavorites :
          probe' = IF favorite # None
                   THEN Call("verify_station", favorite.url)
                   ELSE NoCall("verify_station")
    /\ UNCHANGED <<batch_vars, tunein, favorite_vars>>

\* The answer to the request of `stage` arrives after some time, and the probe
\* runs on to its next request or to its return.
TimedAnswer(stage) ==
    /\ probe.st = stage
    /\ \E r \in AnswersTo(probe.url, Method(stage)) :
          \E d \in Durations(stage, r, probe.timeout) :
             LET o == verify_stream_url(stage, r)
             IN  probe' = [probe EXCEPT
                    !.st = CASE o.o = "next" -> NextStage(stage)
                             [] o.o = "hang" -> "reading"
                             [] o.o = "raise" -> "raised"
                             [] o.o = "return" -> "returned",
                    !.elapsed = @ + d,
                    !.is_live = IF o.o # "return" THEN "unset"
                                ELSE IF o.v THEN "True" ELSE "False",
                    !.checked_at =
                        IF o.o = "return" /\ probe.timeout \in CallersWithResult
                        THEN checked_at(0, probe.elapsed + d)
                        ELSE NoTime]
    /\ UNCHANGED <<batch_vars, tunein, favorite_vars>>

TimedNext ==
    \/ CheckStation
    \/ VerifySingleStation
    \/ VerifyStation
    \/ \E stage \in {"head", "range", "get"} : TimedAnswer(stage)

TimedSpec == TimedInit /\ [][TimedNext]_vars

----------------------------------------------------------------------------
(* The properties of the specification, stated on the request and the      *)
(* servers, not through the operators above.                               *)

\* A key that is missing, null or the empty string.
IsEmptyOrMissing(d, key) == key \notin DOMAIN d \/ d[key] \in {None, Str("")}

\* The URL to probe: url_resolved when present and non-empty, url otherwise.
ProbedUrl(d) ==
    IF ~IsEmptyOrMissing(d, "url_resolved") THEN d["url_resolved"]
    ELSE IF "url" \in DOMAIN d THEN d["url"] ELSE Str("")

IsInvalidEntry(d) ==
    \/ IsEmptyOrMissing(d, "stationuuid")
    \/ IsEmptyOrMissing(d, "url_resolved") /\ IsEmptyOrMissing(d, "url")

\* The surviving requests: valid entries among the first 50.
Survivors == {p \in 1..Len(request) : p <= 50 /\ ~IsInvalidEntry(request[p])}

ResultsFor(p) == {j \in 1..Len(results) : results[j].pos = p}

RequestsFor(p) == {s \in sent : s.pos = p}

\* C1: when the batch returns, every surviving request has exactly one
\* result, whatever its probe met: none is missing, none is reported twice.
C1_OneResultPerSurvivor ==
    pc = "done" => \A p \in Survivors : Cardinality(ResultsFor(p)) = 1

\* C2: an entry whose stationuuid or effective URL is empty or missing never
\* gets a result and no HTTP request is ever sent for it.
C2_InvalidEntriesDropped ==
    \A p \in 1..Len(request) :
        IsInvalidEntry(request[p]) => ResultsFor(p) = {} /\ RequestsFor(p) = {}

C2_Witness ==
    /\ pc = "done"
    /\ Len(results) > 0
    /\ \E p \in 1..Len(request) : p <= 50 /\ IsInvalidEntry(request[p])

\* C3: at most 50 results, and an entry at position 51 or later is never
\* probed and never reported.
C3_OnlyFirstFifty ==
    /\ Len(results) <= 50
    /\ \A j \in 1..Len(results) : results[j].pos <= 50
    /\ \A s \in sent : s.pos <= 50
    /\ \A k \in 1..Len(tasks) : tasks[k].pos <= 50

C3_Witness ==
    /\ pc = "done"
    /\ Len(request) > 50
    /\ ~IsInvalidEntry(request[51])
    /\ \E p \in 1..50 : IsInvalidEntry(request[p])
    /\ Len(results) = 49

C5_ResolvedUrlPreferred ==
    \A s \in sent : s.url = ProbedUrl(request[s.pos])

C5_Witness ==
    \E s \in sent :
        /\ ~IsEmptyOrMissing(request[s.pos], "url_resolved")
        /\ ~IsEmptyOrMissing(request[s.pos], "url")
        /\ request[s.pos]["url"] # request[s.pos]["url_resolved"]
        /\ s.method = "GET"

\* C6: no exception of the HTTP client (connection error, timeout, protocol
\* error, body-read error) leaves verify_stream_url.
C6_ProbeNeverRaises ==
    \A k \in 1..Len(tasks) :
        tasks[k].value.kind = "Exception" => tasks[k].value.exc \notin Exceptions

C6_Witness ==
    \E k \in 1..Len(tasks) :
        /\ tasks[k].st = "returned"
        /\ tasks[k].at = "get"
        /\ tasks[k].resp.kind = "response"
        /\ tasks[k].resp.body = "ReadError"

\* C7: a surviving request whose check_station raised still has a result,
\* with is_live = false, once its sub-batch has been gathered.
C7_FailedCheckStillReported ==
    pc \in {"loop", "done"} =>
        \A k \in 1..Len(tasks) :
            tasks[k].st = "raised" =>
                \E j \in ResultsFor(tasks[k].pos) : ~results[j].is_live

\* C8: a URL answering 200 with a non-audio Content-Type is never reported
\* live, whatever the body.
C8_NonAudioPageNeverLive ==
    \A j \in 1..Len(results) :
        hosts[ProbedUrl(request[results[j].pos]).v] = "html" => ~results[j].is_live

\* The probe of task t has returned live.
ReturnedLive(t) ==
    /\ Finished(t)
    /\ t.value.kind = "StationVerifyResult" => t.value.is_live
    /\ t.value.kind = "Exception" => t.value.exc = "ValidationError"

\* C9: a HEAD answer with status < 400 and an icy-name header makes the
\* probe return live at the HEAD stage, and no GET is sent.
C9_IcyNameAtHeadReturnsLive ==
    \A k \in 1..Len(tasks) :
        LET t == tasks[k]
        IN  (/\ t.at = "head"
             /\ t.resp.kind = "response"
             /\ t.resp.status < 400
             /\ "icy-name" \in DOMAIN t.resp.headers)
            => ReturnedLive(t) /\ \A s \in RequestsFor(t.pos) : s.method = "HEAD"

\* C10: at every stage, an answer with status < 400 and any icy-* header
\* makes the probe return live.
C10_AnyIcyHeaderReturnsLive ==
    \A k \in 1..Len(tasks) :
        LET t == tasks[k]
        IN  (/\ t.resp.kind = "response"
             /\ t.resp.status < 400
             /\ DOMAIN t.resp.headers \cap {"icy-name", "icy-genre", "icy-br"} # {})
            => ReturnedLive(t)

\* The requests of a probe that has reached each stage.
MethodsUpTo(stage) ==
    CASE stage = "head" -> {"HEAD"}
      [] stage = "range" -> {"HEAD", "GET Range"}
      [] stage = "get" -> {"HEAD", "GET Range", "GET"}
      [] OTHER -> {}

\* The Content-Type values of the audio/container family among those the
\* servers send.
AudioFamily ==
    {"audio/mpeg", "AUDIO/AACP", "audio/x-mpegurl", "application/ogg",
     "application/octet-stream", "video/mp4", "application/vnd.apple.mpegurl",
     "application/x-mpegurl"}

HasAudioFamilyType(r) ==
    /\ r.kind = "response"
    /\ r.status < 400
    /\ "content-type" \in DOMAIN r.headers
    /\ r.headers["content-type"] \in AudioFamily

\* C11: a response with status < 400 and a Content-Type of the audio/container
\* family makes the probe return live at the stage that received it: it is
\* the last answer the probe waits for and no request of a later stage is sent.
C11_AudioTypeReturnsLiveAtThatStage ==
    \A k \in 1..Len(tasks) :
        LET t == tasks[k]
        IN  HasAudioFamilyType(t.resp) =>
                /\ Finished(t)
                /\ t.is_live = "True"
                /\ {s.method : s \in RequestsFor(t.pos)} = MethodsUpTo(t.at)

C11_Witness ==
    \E k \in 1..Len(tasks) :
        /\ tasks[k].at = "get"
        /\ HasAudioFamilyType(tasks[k].resp)
        /\ tasks[k].resp.headers["content-type"] = "application/x-mpegurl"
        /\ tasks[k].is_live = "True"

\* Position p holds a surviving request.
IsSurvivor(p) == p <= 50 /\ ~IsInvalidEntry(request[p])

\* The class of the server a request is probed against.
HostOf(p) == hosts[ProbedUrl(request[p]).v]

\* The probe of an unreachable host has failed at all three stages and
\* returned False.
UnreachableProbeReturnsFalse ==
    \A k \in 1..Len(tasks) :
        LET t == tasks[k]
        IN  (IsSurvivor(t.pos) /\ HostOf(t.pos) = "down" /\ Finished(t)) =>
                /\ t.is_live = "False"
                /\ t.at = "get"
                /\ {s.method : s \in RequestsFor(t.pos)} = MethodsUpTo("get")

\* C12: the probe of an unreachable host fails at all three stages and
\* returns False, and when the batch returns, the request has its result
\* with is_live = false.
C12_UnreachableHostReportedNotLive ==
    /\ UnreachableProbeReturnsFalse
    /\ pc = "done" =>
          \A p \in Survivors :
              HostOf(p) = "down" => \E j \in ResultsFor(p) : ~results[j].is_live

\* The servers that answer every request with a status >= 400.
ErrorHosts == {"error", "gone"}

Timeouts == {"ConnectTimeout", "ReadTimeout"}

\* The plain GET of task t has timed out: while connecting or waiting for the
\* response headers, or while reading the body of a response whose headers
\* settled nothing.
TimedOutAtGet(t) ==
    /\ t.at = "get"
    /\ \/ t.resp.kind = "exception" /\ t.resp.exc \in Timeouts
       \/ /\ t.resp.kind = "response"
          /\ t.resp.status < 400
          /\ ~HasAudioFamilyType(t.resp)
          /\ t.resp.body \in Timeouts

\* C14: a probe whose plain GET times out, while connecting, waiting for the
\* headers or reading the body, returns False.
C14_FinalStageTimeoutNotLive ==
    \A k \in 1..Len(tasks) :
        TimedOutAtGet(tasks[k]) => Finished(tasks[k]) /\ tasks[k].is_live = "False"

\* The probe of a plain GET that timed out before the response headers has
\* returned False.
TimeoutBeforeHeadersNotLive ==
    \A k \in 1..Len(tasks) :
        (TimedOutAtGet(tasks[k]) /\ tasks[k].resp.kind = "exception")
            => Finished(tasks[k]) /\ tasks[k].is_live = "False"

\* The closed enumeration of reasons.
PositiveReasons ==
    {"icy_stream", "valid_audio", "pls_playlist", "hls_playlist", "binary_audio"}

\* The negative reasons: http_<status> for the statuses the servers send.
NegativeReasons == {"connect_failed", "timeout", "not_audio", "http_404", "http_503"}

\* C15: every result carries a reason of the closed enumeration, and it is
\* live exactly when the reason is a positive one and not live exactly when
\* the reason is a negative one.
C15_ReasonMatchesVerdict ==
    \A j \in 1..Len(results) :
        /\ "reason" \in DOMAIN results[j]
        /\ results[j]["reason"] \in PositiveReasons \cup NegativeReasons
        /\ results[j].is_live <=> results[j]["reason"] \in PositiveReasons

\* The probes in flight: verify_stream_url has been called and has not returned.
ProbesInFlight == {k \in 1..Len(tasks) : InFlight(tasks[k])}

\* C16: at every moment of a verify_stations_batch call at most 5 probes are
\* in flight, whatever the size of the input and the behaviour of the hosts.
C16_AtMostFiveInFlight == Cardinality(ProbesInFlight) <= 5

C16_Witness ==
    /\ Cardinality(ProbesInFlight) = 5
    /\ Len(request) > 50
    /\ Len(results) >= 5
    /\ \E k \in ProbesInFlight : tasks[k].st = "head"
    /\ \E k \in ProbesInFlight : tasks[k].st = "get"

\* The sub-batch of the entry at position p.
SubBatchOf(p) == (p - 1) \div 5

Started(t) == t.st # "created" /\ IsSurvivor(t.pos)

\* C17: sub-batches run one after another: when a probe has started, every
\* probe of an earlier sub-batch has finished, and the results of the earlier
\* sub-batches are already collected.
C17_SubBatchesInSequence ==
    LET reported == {results[j].pos : j \in 1..Len(results)}
    IN  \A k \in 1..Len(tasks) :
            Started(tasks[k]) =>
                /\ \A j \in 1..Len(tasks) :
                      SubBatchOf(tasks[j].pos) < SubBatchOf(tasks[k].pos)
                          => Finished(tasks[j])
                /\ \A p \in 1..(5 * SubBatchOf(tasks[k].pos)) :
                      (IsSurvivor(p) /\ request[p]["stationuuid"].t = "str")
                          => p \in reported

C17_Witness ==
    /\ \E k \in 1..Len(tasks) : InFlight(tasks[k]) /\ tasks[k].pos > 5
    /\ \E j \in 1..Len(results) : results[j].pos <= 5 /\ ~results[j].is_live
    /\ \E j \in 1..Len(results) : results[j].pos <= 5 /\ results[j].is_live

\* C18: verify_stations_batch returns for every input and every behaviour of
\* the servers: as long as it has not returned, it can take a step, also when
\* a server never answers or sends body bytes without end.
C18_NeverStalled == pc = "done" \/ ENABLED Next

\* The servers that give every probe the same answers, with the verdict a
\* probe of such a server reaches when its URL is the only entry of a batch.
SteadyHosts == {"icy", "down", "gone"}

VerdictAlone(class) == class = "icy"

\* C19: the verdict reported for a request is the one its own URL gets when
\* probed alone, whatever the other entries of the batch and their servers
\* are: reachable, unreachable or failing.
C19_VerdictFromOwnUrlOnly ==
    \A j \in 1..Len(results) :
        HostOf(results[j].pos) \in SteadyHosts
            => results[j].is_live = VerdictAlone(HostOf(results[j].pos))

\* Four live streams and an unreachable host in one sub-batch: four live
\* results and one that is not.
C19_Witness ==
    /\ pc = "done"
    /\ Len(results) >= 5
    /\ \A j \in 1..4 : results[j].pos = j /\ results[j].is_live
    /\ results[5].pos = 5
    /\ HostOf(5) = "down"
    /\ ~results[5].is_live

\* A line of the answer is a File1 entry of a PLS playlist.
PlsEntryFound(lines) ==
    \E k \in 1..Len(lines) : StartsWith(Lower(Strip(lines[k])), Chars("file1="))

\* A line of the answer is the URL of an M3U playlist.
M3uEntryFound(lines) ==
    \E k \in 1..Len(lines) :
        \/ StartsWith(Lower(Strip(lines[k])), Chars("http://"))
        \/ StartsWith(Lower(Strip(lines[k])), Chars("https://"))

\* resolve_tunein_stream raises nothing, and returns its input when the
\* fetch raised.
ResolverErrorGivesInput ==
    /\ tunein.pc # "raised"
    /\ (tunein.pc = "returned" /\ tunein.answer.kind = "exception")
          => tunein.value.v = tunein.tune_url

\* C21: resolve_tunein_stream never raises; when the fetch raised, and when
\* the answer holds no PLS entry and no M3U entry and no redirect was
\* followed, it returns the input URL unchanged.
C21_ResolverFallsBackToInput ==
    /\ ResolverErrorGivesInput
    /\ (/\ tunein.pc = "returned"
        /\ tunein.answer.kind = "response"
        /\ ~PlsEntryFound(tunein.answer.lines)
        /\ ~M3uEntryFound(tunein.answer.lines)
        /\ tunein.answer.redirect = NoRedirect)
          => tunein.value.v = tunein.tune_url

\* C22: whatever the order and interleaving of add_favorite and
\* remove_favorite requests, the collection holds at most one document per
\* stationuuid, and an add_favorite answered with 400 has added nothing.
C22_OneFavoritePerStation ==
    /\ \A s \in StationUuids : Cardinality({d \in favorites : d.stationuuid = s}) <= 1
    /\ \A h \in DOMAIN handlers :
          handlers[h].status = 400 => \A d \in favorites : d.id # h

\* add_favorite for a stationuuid found in the collection answers 400 and adds
\* nothing.
DuplicateFoundIsRefused ==
    [][\A h \in DOMAIN handlers :
          (/\ handlers[h].op = "add"
           /\ handlers[h].at = "start"
           /\ handlers'[h].at # "start"
           /\ find_one(handlers[h].stationuuid) # {})
              => handlers'[h].status = 400 /\ favorites' = favorites]_vars

\* The requests of a probe in the order HEAD, ranged GET, plain GET, up to
\* and including the request of `stage`.
RequestsUpTo(stage) ==
    CASE stage = "head" -> {<<1, "HEAD">>}
      [] stage = "range" -> {<<1, "HEAD">>, <<2, "GET Range">>}
      [] stage = "get" -> {<<1, "HEAD">>, <<2, "GET Range">>, <<3, "GET">>}
      [] OTHER -> {}

\* The requests the probe of the entry at position p has sent, in order.
RequestLog(p) == {<<s.n, s.method>> : s \in RequestsFor(p)}

Waiting(t) == t.st \in {"head", "range", "get"}

\* C23: a probe sends its requests in the order HEAD, ranged GET, plain GET,
\* each at most once; while it waits for the answer of a stage it has no
\* verdict; once it has returned, its requests are those up to the stage
\* that gave the verdict and no more.
C23_StagesInOrder ==
    \A k \in 1..Len(tasks) :
        LET t == tasks[k]
        IN  /\ Waiting(t) => t.is_live = "unset" /\ RequestLog(t.pos) = RequestsUpTo(t.st)
            /\ t.is_live # "unset" => Finished(t) /\ RequestLog(t.pos) = RequestsUpTo(t.at)
            /\ Cardinality(RequestsFor(t.pos)) = Cardinality(RequestLog(t.pos))

C23_Witness ==
    \E k \in 1..Len(tasks) :
        /\ tasks[k].is_live = "True"
        /\ tasks[k].at = "range"
        /\ RequestLog(tasks[k].pos) = RequestsUpTo("range")
        /\ pc = "done"

\* The request of a stage got no response: it raised or timed out.
RequestFailed(r) == r.kind = "exception"

\* C24: the HEAD stage gives no non-live verdict: a probe whose last answer is
\* that of the HEAD has either returned live or, whatever the HEAD met (an
\* error status, an exception, a timeout, headers that settle nothing), sent
\* the ranged GET; a non-live verdict comes after a ranged GET.
C24_HeadNeverRejects ==
    \A k \in 1..Len(tasks) :
        LET t == tasks[k]
        IN  /\ t.at = "head" =>
                \/ Finished(t) /\ t.is_live = "True"
                \/ t.st = "range" /\ t.is_live = "unset"
                     /\ <<2, "GET Range">> \in RequestLog(t.pos)
            /\ t.is_live = "False" => <<2, "GET Range">> \in RequestLog(t.pos)

C24_Witness ==
    \E k \in 1..Len(tasks) :
        /\ tasks[k].at = "head"
        /\ tasks[k].st = "range"
        /\ RequestFailed(tasks[k].resp)
        /\ tasks[k].resp.exc \in Timeouts
        /\ RequestLog(tasks[k].pos) = RequestsUpTo("range")

NoIcyHeader(r) == DOMAIN r.headers \cap {"icy-name", "icy-genre", "icy-br"} = {}

\* The HEAD or the ranged GET of task t has timed out: while connecting or
\* waiting for the response headers, or while the ranged GET read the body of
\* a 200 or 206 response whose headers settled nothing.
TimedOutBeforeFinal(t) ==
    /\ t.at \in {"head", "range"}
    /\ \/ RequestFailed(t.resp) /\ t.resp.exc \in Timeouts
       \/ /\ t.at = "range"
          /\ t.resp.kind = "response"
          /\ t.resp.status \in {200, 206}
          /\ ~HasAudioFamilyType(t.resp)
          /\ NoIcyHeader(t.resp)
          /\ t.resp.body \in Timeouts

\* C27: a timeout of the HEAD or of the ranged GET gives no verdict, live or
\* not: the probe goes on to the next stage.
C27_EarlyTimeoutGivesNoVerdict ==
    \A k \in 1..Len(tasks) :
        LET t == tasks[k]
        IN  TimedOutBeforeFinal(t) =>
                /\ t.is_live = "unset"
                /\ t.st = IF t.at = "head" THEN "range" ELSE "get"

\* A timeout before the response of the HEAD or of the ranged GET gives no
\* verdict.
EarlyRequestTimeoutGivesNoVerdict ==
    \A k \in 1..Len(tasks) :
        LET t == tasks[k]
        IN  (TimedOutBeforeFinal(t) /\ RequestFailed(t.resp)) =>
                /\ t.is_live = "unset"
                /\ t.st = IF t.at = "head" THEN "range" ELSE "get"

\* C28: the ranged GET never takes more than a small fixed number of body
\* bytes (about 512), also from a server that ignores the Range header and
\* sends a long body.
C28_RangeReadIsBounded ==
    \A k \in 1..Len(tasks) :
        tasks[k].at = "range" => tasks[k].chunk <= 2 * 512

\* The plain GET takes at most 512 bytes of body.
PlainGetReadIsBounded ==
    \A k \in 1..Len(tasks) :
        tasks[k].at = "get" => tasks[k].chunk <= 512

\* C29: the time a probe has spent over its three stages never exceeds the
\* timeout it was called with.
C29_ProbeWithinTimeout == probe.elapsed <= probe.timeout

\* No single operation of the client takes longer than the timeout: a probe
\* of three stages with at most three operations each stays within nine
\* timeouts.
ProbeWithinNineTimeouts == probe.elapsed <= 9 * probe.timeout

\* The Content-Type values of PLS, M3U and M3U8 playlists.
PlaylistTypes ==
    {"audio/x-scpls", "audio/x-mpegurl", "application/x-mpegurl",
     "application/vnd.apple.mpegurl"}

\* The response is a playlist, by its Content-Type or by its body.
IsPlaylist(r) ==
    /\ r.kind = "response"
    /\ r.status < 400
    /\ content_type(r) \in PlaylistTypes \/ r.body = "playlist"

Considered == IF Len(request) < 50 THEN Len(request) ELSE 50

\* ceil(n / d)
CeilDiv(n, d) == (n + d - 1) \div d

\* The coroutines of the sub-batch in progress.
CurrentSubBatch == {k \in 1..Len(tasks) : tasks[k].pos > i /\ tasks[k].pos <= i + 5}

\* The entries of the sub-batch in progress that pass the filter, the URLs it
\* probes.
CurrentSurvivors == {k \in CurrentSubBatch : IsSurvivor(tasks[k].pos)}

\* C31 as claimed: every sub-batch except the last probes exactly 5 URLs, and
\* a batch with k surviving requests has taken ceil(k/5) rounds when it
\* returns.
C31_SubBatchesOfSurvivors ==
    /\ pc = "gather" /\ i + 5 < Considered => Cardinality(CurrentSurvivors) = 5
    /\ pc = "done" => i = 5 * CeilDiv(Cardinality(Survivors), 5)

\* C31 as amended: every sub-batch except the last holds exactly 5 consecutive
\* entries of the first 50 of the input, surviving or not, and probes those
\* of them that survive; a batch of n entries has taken ceil(min(n, 50)/5)
\* rounds when it returns.
C31_SubBatchesOfInputEntries ==
    /\ pc = "gather" =>
          /\ {tasks[k].pos : k \in CurrentSubBatch}
                = {p \in 1..Considered : p > i /\ p <= i + 5}
          /\ Cardinality(CurrentSubBatch)
                = Cardinality({p \in 1..Considered : p > i /\ p <= i + 5})
          /\ i + 5 < Considered => Cardinality(CurrentSubBatch) = 5
    /\ \A s \in sent : IsSurvivor(s.pos)
    /\ \A k \in 1..Len(tasks) :
          tasks[k].st # "created" /\ IsSurvivor(tasks[k].pos) => RequestsFor(tasks[k].pos) # {}
    /\ pc = "done" => i = 5 * CeilDiv(Considered, 5)

\* Six entries of which the fifth is dropped: five survivors, two rounds, the
\* first of them with four probes.
C31_Witness ==
    /\ pc = "done"
    /\ Len(request) = 6
    /\ IsInvalidEntry(request[5])
    /\ Cardinality(Survivors) = 5
    /\ i = 10
    /\ {s.pos : s \in sent} = {1, 2, 3, 4, 6}

\* The coroutines whose check_station returned a result.
Reporting == {k \in 1..Len(tasks) : tasks[k].value.kind = "StationVerifyResult"}

\* C32: the result list is written only by the driver, when every probe of
\* the sub-batch has finished: it then gains exactly one result for each
\* probe that returned one, with that probe's own identifier and verdict, and
\* keeps the results it had. A step of a running probe changes the state of
\* that probe alone: no other probe, no request of another probe, no result.
C32_ProbesShareNoState ==
    [][/\ results' # results =>
            /\ pc = "gather"
            /\ \A k \in 1..Len(tasks) : Finished(tasks[k])
            /\ Len(results') = Len(results) + Cardinality(Reporting)
            /\ \A j \in 1..Len(results) : results'[j] = results[j]
            /\ \A k \in Reporting :
                  LET own == {j \in (Len(results) + 1)..Len(results') :
                                  results'[j].pos = tasks[k].pos}
                  IN  /\ Cardinality(own) = 1
                      /\ \A j \in own :
                            /\ results'[j].is_live = (tasks[k].is_live = "True")
                            /\ results'[j].stationuuid
                                  = request[tasks[k].pos]["stationuuid"]
       /\ pc = "gather" /\ pc' = "gather" /\ tasks' # tasks =>
            /\ Len(tasks') = Len(tasks)
            /\ results' = results
            /\ \E k \in 1..Len(tasks) :
                  /\ ~Finished(tasks[k])
                  /\ \A j \in 1..Len(tasks) : j # k => tasks'[j] = tasks[j]
                  /\ \A s \in sent' \ sent : s.pos = tasks[k].pos
      ]_vars

\* Two probes of one sub-batch have returned different verdicts while a third
\* is still running; none of the three has a result in the list yet.
C32_Witness ==
    /\ pc = "gather"
    /\ \E a, b, c \in 1..Len(tasks) :
          /\ tasks[a].value.kind = "StationVerifyResult" /\ tasks[a].value.is_live
          /\ tasks[b].value.kind = "StationVerifyResult" /\ ~tasks[b].value.is_live
          /\ InFlight(tasks[c])
          /\ c < a
          /\ \A k \in {a, b, c} : ResultsFor(tasks[k].pos) = {}

\* C33: a result of the batch check (timeout 12) or of the single-station
\* check (timeout 15) exists only once the probe has returned its verdict,
\* and its checked_at is the time at which the probe returned, not the time 0
\* at which the request started.
C33_CheckedAtIsVerdictTime ==
    /\ probe.checked_at # NoTime =>
          /\ probe.st = "returned"
          /\ probe.is_live # "unset"
          /\ probe.checked_at = probe.elapsed
    /\ probe.st = "returned" /\ probe.timeout \in {12, 15} => probe.checked_at # NoTime

\* A single-station check that returned live at its plain GET, after both
\* earlier stages had timed out: its checked_at is later than two timeouts.
C33_Witness ==
    /\ probe.st = "returned"
    /\ probe.timeout = 15
    /\ probe.is_live = "True"
    /\ probe.checked_at # NoTime
    /\ probe.checked_at > 2 * 15

\* verify_stream_url has been called.
ProbeCalled == probe.st \notin {"idle", "skipped"}

\* C34: verify_stream_url is never called with an empty URL, from any of its
\* three call sites.
C34_NeverCalledWithEmptyUrl == ProbeCalled => probe.url # ""

\* check_station, alone of the three callers, tests the URL before the call.
CheckStationFiltersEmptyUrl ==
    ProbeCalled /\ probe.caller = "check_station" => probe.url # ""

\* The resolver has returned from a fetched body.
ResolvedBody == tunein.pc = "returned" /\ tunein.answer.kind = "response"

\* The value of a File1 line: what follows "File1=", without the whitespace
\* around it.
File1Value(line) ==
    LET entry == Strip(line)
    IN  Strip(SubSeq(entry, Len(Chars("file1=")) + 1, Len(entry)))

\* The first line of the body that is a File1 line; 0 when there is none.
FirstFile1(lines) ==
    LET found == {k \in 1..Len(lines) : StartsWith(Lower(Strip(lines[k])), Chars("file1="))}
    IN  IF found = {} THEN 0 ELSE CHOOSE k \in found : \A j \in found : k <= j

\* The first line of the body that begins with File1=, in any letter case and
\* with nothing before it; 0 when there is none.
FirstLeadingFile1(lines) ==
    LET found == {k \in 1..Len(lines) : StartsWith(Lower(lines[k]), Chars("file1="))}
    IN  IF found = {} THEN 0 ELSE CHOOSE k \in found : \A j \in found : k <= j

\* The body holds the section header of a PLS playlist, in any letter case.
HasPlaylistHeader(lines) ==
    \E k \in 1..Len(lines) : Contains(Lower(lines[k]), Chars("[playlist]"))

\* C35 as claimed: for every fetched body with a File1 line, whatever else it
\* holds, the resolver returns the value of that line.
C35_File1ValueReturned ==
    ResolvedBody /\ FirstFile1(tunein.answer.lines) # 0 =>
        tunein.value.v = File1Value(tunein.answer.lines[FirstFile1(tunein.answer.lines)])

\* C35 as amended: for every fetched body that holds the header [playlist]
\* and a line beginning with File1=, the resolver returns the value of the
\* first such line, whatever M3U entries the body holds before or after it
\* and whatever redirect was followed.
C35_File1OfPlsBodyReturned ==
    (/\ ResolvedBody
     /\ HasPlaylistHeader(tunein.answer.lines)
     /\ FirstLeadingFile1(tunein.answer.lines) # 0)
        => tunein.value.v
              = File1Value(tunein.answer.lines[FirstLeadingFile1(tunein.answer.lines)])

\* An M3U entry, then the header, then File1=, fetched through a redirect:
\* the File1 value is returned.
C35_Witness ==
    /\ ResolvedBody
    /\ tunein.answer.lines
          = <<Chars("http://s/b"), Chars("[Playlist]"), Chars("file1= http://s/a \r")>>
    /\ tunein.answer.redirect # NoRedirect
    /\ tunein.value.v = Chars("http://s/a")

\* The PLS rule applies to the body: it has the header and a File1= line.
PlsRuleApplies(lines) == HasPlaylistHeader(lines) /\ FirstLeadingFile1(lines) # 0

\* The line, without the whitespace around it, is non-blank, does not start
\* with '#' and starts with http:// or https://.
LooksLikeUrl(line) ==
    LET entry == Strip(line)
    IN  /\ Len(entry) > 0
        /\ entry[1] # "#"
        /\ StartsWith(entry, Chars("http://")) \/ StartsWith(entry, Chars("https://"))

\* The lines of the body that look like a URL.
UrlLines(lines) == {k \in 1..Len(lines) : LooksLikeUrl(lines[k])}

\* C36: for a fetched body without a PLS File1 entry and with a line that
\* looks like a URL, the resolver returns the first such line of the body,
\* without the whitespace around it, never a later one.
C36_FirstUrlLineReturned ==
    (/\ ResolvedBody
     /\ ~PlsRuleApplies(tunein.answer.lines)
     /\ UrlLines(tunein.answer.lines) # {})
        => \E k \in UrlLines(tunein.answer.lines) :
              /\ \A j \in UrlLines(tunein.answer.lines) : k <= j
              /\ tunein.value.v = Strip(tunein.answer.lines[k])

\* A directive, then two URL lines: the first of the two is returned.
C36_Witness ==
    /\ ResolvedBody
    /\ tunein.answer.lines = <<Chars("#EXTM3U"), Chars(" https://s/c\r"), Chars("http://s/b")>>
    /\ tunein.value.v = Strip(Chars(" https://s/c\r"))
    /\ tunein.value.v # Chars("http://s/b")

\* The body matches neither the PLS nor the M3U pattern.
NeitherPattern(lines) == ~PlsRuleApplies(lines) /\ UrlLines(lines) = {}

\* The redirects of the fetch ended at a URL other than the input.
RedirectedElsewhere ==
    tunein.answer.redirect # NoRedirect /\ tunein.answer.redirect # tunein.tune_url

\* C37: when the body matches neither pattern, the resolver returns the URL
\* the redirects ended at if that is not the input URL, and the input URL
\* otherwise; when a pattern matches, the URL the redirects ended at is not
\* what is returned.
C37_RedirectRuleLast ==
    ResolvedBody =>
        IF NeitherPattern(tunein.answer.lines)
        THEN tunein.value.v = IF RedirectedElsewhere THEN tunein.answer.redirect
                              ELSE tunein.tune_url
        ELSE RedirectedElsewhere => tunein.value.v # tunein.answer.redirect

\* When the body matches neither pattern the resolver returns the URL of the
\* final response as the client reports it, with scheme and host in lower
\* case, whether a redirect was followed or not.
NeitherPatternGivesClientUrl ==
    ResolvedBody /\ NeitherPattern(tunein.answer.lines) =>
        tunein.value.v = response_url(tunein.tune_url, tunein.answer)

\* The redirect rule never overrides a playlist entry.
RedirectNeverOverridesEntry ==
    ResolvedBody /\ ~NeitherPattern(tunein.answer.lines) /\ RedirectedElsewhere =>
        tunein.value.v # tunein.answer.redirect

\* The input positions of the results, in the order of the output.
ResultPositions == [j \in 1..Len(results) |-> results[j].pos]

\* The results are in the order of the input: positions strictly increase,
\* within a sub-batch and across sub-batches, and each result carries the
\* identifier of the surviving entry at its position.
ResultsInInputOrder ==
    /\ \A j, k \in 1..Len(results) : j < k => results[j].pos < results[k].pos
    /\ \A j \in 1..Len(results) :
          /\ IsSurvivor(results[j].pos)
          /\ results[j].stationuuid = request[results[j].pos]["stationuuid"]

\* C38: the output is the sequence of the entries among the first 50 of the
\* input that survive filtering, each of them once, in input order, whatever
\* the order in which the probes of a sub-batch complete.
C38_OutputIsSurvivorsInOrder ==
    /\ ResultsInInputOrder
    /\ pc = "done" => {results[j].pos : j \in 1..Len(results)} = Survivors

\* C39: given a non-empty URL, the resolver returns a non-empty string,
\* whatever the fetch met and whatever the body holds.
C39_ResolvedUrlNotEmpty ==
    tunein.pc = "returned" /\ Len(tunein.tune_url) > 0 => Len(tunein.value.v) > 0

\* The resolver returns the empty string only for a PLS body whose first
\* File1= line has a blank value, or for an empty input.
EmptyOnlyFromBlankFile1 ==
    tunein.pc = "returned" /\ Len(tunein.tune_url) > 0 /\ Len(tunein.value.v) = 0 =>
        /\ tunein.answer.kind = "response"
        /\ PlsRuleApplies(tunein.answer.lines)
        /\ Len(File1Value(tunein.answer.lines[FirstLeadingFile1(tunein.answer.lines)])) = 0

=============================================================================
